---- MODULE Spec2Model ----
(***************************************************************************)
(* Model of the pgtuner_mcp tool handlers (src/src/pgtuner_mcp/tools).     *)
(*                                                                         *)
(* Part 1 (SpecHypo): the hypothetical-index session shared by the         *)
(* explain_with_indexes and manage_hypothetical_indexes handlers.  Every   *)
(* await of a handler is one step, so two client requests interleave at    *)
(* the database round trips.                                               *)
(* Part 2 (SpecAdvisor): the recommendation pipeline of                     *)
(* get_index_recommendations (collect, table filter, threshold filter,     *)
(* sort, cap, emit).                                                       *)
(*                                                                         *)
(* The services package (HypoPGService, IndexAdvisor, SqlDriver) is not    *)
(* part of the sources; the operators that stand for it follow the         *)
(* specification (sections 4.1, 4.3, 6 and 7).                             *)
(***************************************************************************)
EXTENDS Integers, Sequences, FiniteSets, TLC

VARIABLES
    hypo,        \* the session's hypothetical indexes: set of [oid, owner]
    nextOid,     \* next identifier the backend assigns
    available,   \* whether the HypoPG extension is installed
    ncalls,      \* number of tool invocations started so far
    calls,       \* per client: the handler activation (locals and position)
    env,         \* the environment of a run: clients issuing requests, and
                 \* the plan costs the planner reports
    adv,         \* the get_index_recommendations activation
    perf,        \* the get_slow_queries / get_table_stats activation
    db,          \* the connection pool (DbConnPool) and its driver
    val,         \* a call at a handler that validates required arguments
    reg,         \* the server's tool registry and the last list_tools answer
    plan_history,  \* _plan_history: query hash -> list of plan entries
    hist,        \* per client: the manage_query_plan_history activation
    stores,      \* store requests so far (the clock of the timestamps)
    issued,      \* the <<query hash, plan_index>> answered by the stores
                 \* whose query has not been cleared since
    srv,         \* main of server.py: its position, the global db_pool
    cmp          \* a call of _compare_metrics: its arguments and result

vars ==
    <<hypo, nextOid, available, ncalls, calls, env, adv, perf, db, val, reg,
      plan_history, hist, stores, issued, srv, cmp>>

hypoVars == <<hypo, nextOid, available, ncalls, calls, env>>

\* the state of the handlers that do not touch the hypothetical-index session
histVars == <<plan_history, hist, stores, issued>>

toolVars == <<perf, db, val, reg, histVars, srv, cmp>>

\* what the actions of one component leave alone
notPerf == <<hypoVars, adv, db, val, reg, histVars, srv, cmp>>

notDb == <<hypoVars, adv, perf, val, reg, histVars, srv, cmp>>

notVal == <<hypoVars, adv, perf, db, reg, histVars, srv, cmp>>

notReg == <<hypoVars, adv, perf, db, val, histVars, srv, cmp>>

notHist == <<hypoVars, adv, perf, db, val, reg, srv, cmp>>

notSrv == <<hypoVars, adv, perf, db, val, reg, histVars, cmp>>

notCmp == <<hypoVars, adv, perf, db, val, reg, histVars, srv>>

(***************************************************************************)
(* Bounds                                                                  *)
(***************************************************************************)
MaxCalls == 2          \* tool invocations per behaviour
MaxIdx == 2            \* length of the hypothetical_indexes argument
MaxOid == 2            \* identifiers the backend hands out

Clients == {"c1", "c2"}

\* Plan costs the planner may report ("Total Cost"); 0 also stands for an
\* empty EXPLAIN result or a plan without the key (_extract_cost default).
Costs == {0, 100, 120}

IdxSpecs == {[table |-> "orders", columns |-> <<"customer_id">>]}

\* original_cost / cost_with_indexes before the EXPLAIN that sets them
NoCost == 0 - 1

(***************************************************************************)
(* Pure helpers of ExplainQueryToolHandler                                 *)
(***************************************************************************)
\* Python round(x, 2) of num/den*100 for den > 0, in hundredths of a percent
\* (round half to even).
RoundHalfEven(num, den) ==
    LET q == num \div den
        r == num - q * den
    IN  IF 2 * r < den THEN q
        ELSE IF 2 * r > den THEN q + 1
        ELSE IF q % 2 = 0 THEN q ELSE q + 1

\* improvement = ((original_cost - new_cost) / original_cost) * 100, rounded
\* to two decimals; the value is in hundredths of a percent.
Improvement(original_cost, new_cost) ==
    RoundHalfEven((original_cost - new_cost) * 10000, original_cost)

\* original_cost > 0 guards the computation; otherwise the key is not set.
HasImprovement(original_cost) == original_cost > 0

(***************************************************************************)
(* The hypothetical-index service (HypoPGService), after section 4.1       *)
(***************************************************************************)
Oids(h) == {x.oid : x \in h}

\* create_hypothetical_index on success: the backend registers a new index
SvcCreate(h, oid, owner) == h \cup {[oid |-> oid, owner |-> owner]}

\* drop_hypothetical_index(index_id)
SvcDrop(h, index_id) == {x \in h : x.oid # index_id}

\* reset_hypothetical_indexes: clears the simulation state, no-op when empty
SvcReset(h) == {}

(***************************************************************************)
(* Handler activations                                                     *)
(***************************************************************************)
IdleCall ==
    [tool |-> "none", action |-> "none", pc |-> "idle", id |-> 0,
     hypothetical_indexes |-> <<>>, i |-> 0, created_indexes |-> <<>>,
     original_cost |-> NoCost, cost_with_indexes |-> NoCost,
     has_improvement |-> FALSE, improvement |-> 0,
     error_field |-> FALSE, raised |-> FALSE, result |-> "none",
     baseline |-> {}, simulated |-> {}, index_id |-> 0,
     service_ops |-> <<>>, requested |-> FALSE]

Range(f) == {f[k] : k \in DOMAIN f}

SeqsUpTo(S, n) == UNION {[1..k -> S] : k \in 0..n}

Set(c, r) == calls' = [calls EXCEPT ![c] = r]

\* format_error / format_json_result / format_result: the call returns and
\* its loop variables go out of scope
Finish(r, kind) ==
    [r EXCEPT !.pc = "done", !.result = kind, !.i = 0,
              !.hypothetical_indexes = <<>>]

\* a call of manage_hypothetical_indexes to the service, with its index
\* argument (0 when the operation takes none or takes an index definition)
Op(r, name, arg) ==
    [r EXCEPT !.service_ops = Append(@, [op |-> name, arg |-> arg])]

\* Concurrent requests on one session; the planner's answer is held to one
\* cost, since the session's content does not depend on it.
SessionEnv ==
    [clients |-> Clients, costs |-> {100},
     urls |-> {"postgresql://localhost/test"},
     hashes |-> {<<>>}, metrics |-> {"total_cost" :> 100},
     handlers |-> [c \in Clients |-> "handler"]]

\* One client issuing requests in turn, with every plan cost.
CostEnv ==
    [clients |-> {"c1"}, costs |-> Costs,
     urls |-> {"postgresql://localhost/test"},
     hashes |-> {<<>>}, metrics |-> {"total_cost" :> 100},
     handlers |-> [c \in Clients |-> "handler"]]

InitHypo(e) ==
    /\ hypo = {}
    /\ nextOid = 1
    /\ available \in BOOLEAN
    /\ ncalls = 0
    /\ calls = [c \in Clients |-> IdleCall]
    /\ env = e

(***************************************************************************)
(* explain_with_indexes: ExplainQueryToolHandler.run_tool                  *)
(***************************************************************************)
\* a cleanup placed at the end of the try body instead of in a finally
FinallyCleanup_onlyOnSuccess(h, raised) == IF raised THEN h ELSE SvcReset(h)

\* the finally block: reset_hypothetical_indexes() on every exit of the try
FinallyCleanup(h, raised) == SvcReset(h)

ExplainInvoke(c) ==
    /\ calls[c].pc = "idle"
    /\ ncalls < MaxCalls
    /\ ncalls' = ncalls + 1
    /\ \E hasQuery \in BOOLEAN, idxs \in SeqsUpTo(IdxSpecs, MaxIdx) :
         LET r == [IdleCall EXCEPT !.tool = "explain_with_indexes",
                                   !.id = ncalls + 1,
                                   !.hypothetical_indexes = idxs,
                                   !.requested = (idxs # <<>>)]
         IN  IF hasQuery
             THEN Set(c, [r EXCEPT !.pc = "explain_original"])
             ELSE Set(c, Finish(r, "error"))   \* validate_required_args raises
    /\ UNCHANGED <<hypo, nextOid, available, env, adv, toolVars>>

\* first EXPLAIN: outside the inner try, so a failure returns format_error
ExplainOriginalFails(c) ==
    /\ calls[c].pc = "explain_original"
    /\ Set(c, Finish(Op(calls[c], "execute_query", 0), "error"))
    /\ UNCHANGED <<hypo, nextOid, available, ncalls, env, adv, toolVars>>

ExplainOriginal(c) ==
    /\ calls[c].pc = "explain_original"
    /\ \E k \in env.costs :
         LET r == [Op(calls[c], "execute_query", 0) EXCEPT
                     !.original_cost = k,
                     !.baseline = Oids(hypo)]
         IN  IF r.hypothetical_indexes # <<>>
             THEN Set(c, [r EXCEPT !.pc = "check_available"])
             ELSE Set(c, Finish(r, "json"))
    /\ UNCHANGED <<hypo, nextOid, available, ncalls, env, adv, toolVars>>

\* a handler that goes on whatever the availability check answers
StopsWithoutHypoPG_never(hypopg_available) == FALSE

\* "if not hypopg_available:" the answer gets an error field and returns
StopsWithoutHypoPG(hypopg_available) == ~hypopg_available

CheckAvailable(c) ==
    /\ calls[c].pc = "check_available"
    /\ LET r == Op(calls[c], "check_hypopg_available", 0)
       IN  IF StopsWithoutHypoPG(available)
           THEN Set(c, Finish([r EXCEPT !.error_field = TRUE], "json"))
           ELSE Set(c, [r EXCEPT !.pc = "create_loop"])
    /\ UNCHANGED <<hypo, nextOid, available, ncalls, env, adv, toolVars>>

AfterCreate(r) ==
    IF r.i = Len(r.hypothetical_indexes)
    THEN [r EXCEPT !.pc = "explain_hypo"] ELSE r

\* create_hypothetical_index returned success: the index is recorded
CreateSucceeds(c) ==
    /\ calls[c].pc = "create_loop"
    /\ nextOid <= MaxOid
    /\ hypo' = SvcCreate(hypo, nextOid, calls[c].id)
    /\ nextOid' = nextOid + 1
    /\ Set(c, AfterCreate([Op(calls[c], "create_hypothetical_index", 0)
                            EXCEPT
                              !.i = @ + 1,
                              !.created_indexes = Append(@, nextOid)]))
    /\ UNCHANGED <<available, ncalls, env, adv, toolVars>>

\* create_hypothetical_index returned success = False: nothing recorded
CreateRejected(c) ==
    /\ calls[c].pc = "create_loop"
    /\ Set(c, AfterCreate([Op(calls[c], "create_hypothetical_index", 0)
                            EXCEPT !.i = @ + 1]))
    /\ UNCHANGED <<hypo, nextOid, available, ncalls, env, adv, toolVars>>

\* create_hypothetical_index (or reading idx_spec) raised: to the finally
CreateRaises(c) ==
    /\ calls[c].pc = "create_loop"
    /\ Set(c, [Op(calls[c], "create_hypothetical_index", 0) EXCEPT
                  !.raised = TRUE, !.pc = "finally"])
    /\ UNCHANGED <<hypo, nextOid, available, ncalls, env, adv, toolVars>>

\* second EXPLAIN raised, or its plan could not be parsed
ExplainHypoFails(c) ==
    /\ calls[c].pc = "explain_hypo"
    /\ Set(c, [Op(calls[c], "execute_query", 0) EXCEPT
                  !.raised = TRUE, !.pc = "finally"])
    /\ UNCHANGED <<hypo, nextOid, available, ncalls, env, adv, toolVars>>

ExplainHypo(c) ==
    /\ calls[c].pc = "explain_hypo"
    /\ \E k \in env.costs :
         Set(c, [Op(calls[c], "execute_query", 0) EXCEPT
                   !.cost_with_indexes = k,
                   !.simulated = Oids(hypo),
                   !.has_improvement = HasImprovement(calls[c].original_cost),
                   !.improvement =
                       IF HasImprovement(calls[c].original_cost)
                       THEN Improvement(calls[c].original_cost, k) ELSE 0,
                   !.pc = "finally"])
    /\ UNCHANGED <<hypo, nextOid, available, ncalls, env, adv, toolVars>>

ExplainFinally(c) ==
    /\ calls[c].pc = "finally"
    /\ hypo' = FinallyCleanup(hypo, calls[c].raised)
    /\ Set(c, Finish(Op(calls[c], "reset_hypothetical_indexes", 0),
                      IF calls[c].raised THEN "error" ELSE "json"))
    /\ UNCHANGED <<nextOid, available, ncalls, env, adv, toolVars>>

\* the response is delivered; the client may issue another request
Return(c) ==
    /\ calls[c].pc = "done"
    /\ Set(c, IdleCall)
    /\ UNCHANGED <<hypo, nextOid, available, ncalls, env, adv, toolVars>>

(***************************************************************************)
(* manage_hypothetical_indexes: HypoPGToolHandler.run_tool                 *)
(***************************************************************************)
\* the actions the handler knows
KnownActions ==
    {"check", "create", "list", "drop", "reset", "estimate_size"}

\* action values a caller may send
Actions ==
    KnownActions \cup {"hide", "unhide", "list_hidden", "explain_with_index",
                       "vacuum"}

\* the arguments validate_required_args demands for an action
RequiredArgs(action) ==
    IF action \in {"create", "estimate_size"} THEN {"table", "columns"}
    ELSE IF action = "drop" THEN {"index_id"}
    ELSE {}

ManageInvoke(c) ==
    /\ calls[c].pc = "idle"
    /\ ncalls < MaxCalls
    /\ ncalls' = ncalls + 1
    /\ \E action \in Actions, given \in BOOLEAN, index_id \in 1..MaxOid :
         LET r == [IdleCall EXCEPT !.tool = "manage_hypothetical_indexes",
                                   !.action = action,
                                   !.id = ncalls + 1,
                                   !.index_id =
                                       IF action \in {"drop", "hide", "unhide"}
                                          /\ given
                                       THEN index_id ELSE 0]
         IN  IF action \notin KnownActions
             THEN Set(c, Finish(r, "text"))          \* Unknown action
             ELSE IF RequiredArgs(action) # {} /\ ~given
             THEN Set(c, Finish(r, "error"))         \* missing arguments
             ELSE Set(c, [r EXCEPT !.pc = action])
    /\ UNCHANGED <<hypo, nextOid, available, env, adv, toolVars>>

ManageCheck(c) ==
    /\ calls[c].pc = "check"
    /\ Set(c, Finish(Op(calls[c], "check_hypopg_available", 0), "json"))
    /\ UNCHANGED <<hypo, nextOid, available, ncalls, env, adv, toolVars>>

ManageCreate(c) ==
    /\ calls[c].pc = "create"
    /\ available
    /\ nextOid <= MaxOid
    /\ hypo' = SvcCreate(hypo, nextOid, calls[c].id)
    /\ nextOid' = nextOid + 1
    /\ Set(c, Finish(Op([calls[c] EXCEPT !.created_indexes = <<nextOid>>],
                         "create_hypothetical_index", 0), "json"))
    /\ UNCHANGED <<available, ncalls, env, adv, toolVars>>

\* the service reports success = False (result returned as is) or raises
ManageCreateFails(c) ==
    /\ calls[c].pc = "create"
    /\ \E kind \in {"json", "error"} :
         Set(c, Finish(Op(calls[c], "create_hypothetical_index", 0), kind))
    /\ UNCHANGED <<hypo, nextOid, available, ncalls, env, adv, toolVars>>

ManageList(c) ==
    /\ calls[c].pc = "list"
    /\ Set(c, Finish(Op(calls[c], "list_hypothetical_indexes", 0), "json"))
    /\ UNCHANGED <<hypo, nextOid, available, ncalls, env, adv, toolVars>>

ManageDrop(c) ==
    /\ calls[c].pc = "drop"
    /\ hypo' = SvcDrop(hypo, calls[c].index_id)
    /\ Set(c, Finish(Op(calls[c], "drop_hypothetical_index",
                        calls[c].index_id), "json"))
    /\ UNCHANGED <<nextOid, available, ncalls, env, adv, toolVars>>

ManageReset(c) ==
    /\ calls[c].pc = "reset"
    /\ hypo' = SvcReset(hypo)
    /\ Set(c, Finish(Op(calls[c], "reset_hypothetical_indexes", 0), "json"))
    /\ UNCHANGED <<nextOid, available, ncalls, env, adv, toolVars>>

\* estimate_size: create temporarily ...
EstimateCreate(c) ==
    /\ calls[c].pc = "estimate_size"
    /\ available
    /\ nextOid <= MaxOid
    /\ hypo' = SvcCreate(hypo, nextOid, calls[c].id)
    /\ nextOid' = nextOid + 1
    /\ Set(c, Op([calls[c] EXCEPT !.created_indexes = <<nextOid>>,
                                  !.pc = "get_index_size"],
                 "create_hypothetical_index", 0))
    /\ UNCHANGED <<available, ncalls, env, adv, toolVars>>

EstimateCreateFails(c) ==
    /\ calls[c].pc = "estimate_size"
    /\ \E kind \in {"json", "error"} :
         Set(c, Finish(Op(calls[c], "create_hypothetical_index", 0), kind))
    /\ UNCHANGED <<hypo, nextOid, available, ncalls, env, adv, toolVars>>

\* ... get_index_size(index_oid) ...
EstimateSize(c) ==
    /\ calls[c].pc = "get_index_size"
    /\ Set(c, Op([calls[c] EXCEPT !.pc = "drop_created"],
                 "get_index_size", calls[c].created_indexes[1]))
    /\ UNCHANGED <<hypo, nextOid, available, ncalls, env, adv, toolVars>>

\* get_index_size raised: the outer except returns format_error
EstimateSizeRaises(c) ==
    /\ calls[c].pc = "get_index_size"
    /\ Set(c, Finish(Op(calls[c], "get_index_size",
                        calls[c].created_indexes[1]), "error"))
    /\ UNCHANGED <<hypo, nextOid, available, ncalls, env, adv, toolVars>>

\* ... then drop_hypothetical_index(index_oid)
EstimateDrop(c) ==
    /\ calls[c].pc = "drop_created"
    /\ hypo' = SvcDrop(hypo, calls[c].created_indexes[1])
    /\ Set(c, Finish(Op(calls[c], "drop_hypothetical_index",
                        calls[c].created_indexes[1]), "json"))
    /\ UNCHANGED <<nextOid, available, ncalls, env, adv, toolVars>>

NextHypo ==
    \E c \in env.clients :
        \/ ExplainInvoke(c)
        \/ ExplainOriginalFails(c)
        \/ ExplainOriginal(c)
        \/ CheckAvailable(c)
        \/ CreateSucceeds(c)
        \/ CreateRejected(c)
        \/ CreateRaises(c)
        \/ ExplainHypoFails(c)
        \/ ExplainHypo(c)
        \/ ExplainFinally(c)
        \/ ManageInvoke(c)
        \/ ManageCheck(c)
        \/ ManageCreate(c)
        \/ ManageCreateFails(c)
        \/ ManageList(c)
        \/ ManageDrop(c)
        \/ ManageReset(c)
        \/ EstimateCreate(c)
        \/ EstimateCreateFails(c)
        \/ EstimateSize(c)
        \/ EstimateSizeRaises(c)
        \/ EstimateDrop(c)
        \/ Return(c)

\* explain_with_indexes requests only
NextExplain ==
    \E c \in env.clients :
        \/ ExplainInvoke(c)
        \/ ExplainOriginalFails(c)
        \/ ExplainOriginal(c)
        \/ CheckAvailable(c)
        \/ CreateSucceeds(c)
        \/ CreateRejected(c)
        \/ CreateRaises(c)
        \/ ExplainHypoFails(c)
        \/ ExplainHypo(c)
        \/ ExplainFinally(c)
        \/ Return(c)

(***************************************************************************)
(* get_index_recommendations: IndexAdvisorToolHandler.run_tool             *)
(***************************************************************************)
MaxQueries == 2        \* length of the workload_queries argument
MaxRecs == 2           \* recommendations the advisor returns in one run
MaxCap == 2            \* largest max_recommendations argument tried

\* default of min_improvement_percent
DefaultMinImprovement == 10

\* the workload_queries argument: absent or empty, or k distinct query texts
\* (query k of the list is written k)
Workloads == {[k \in 1..n |-> k] : n \in 0..MaxQueries}
TableNames == {"Orders", "users"}
ColumnLists == {<<"a">>, <<"a", "b">>}
\* improvement values: SCORE yields 0..100, below and above the default
\* threshold; MERGE sums the benefit of the queries served, so above 100 too
Improvements == {5, 50, 150}
Sizes == {1, 2}
Thresholds == {0 - 10, DefaultMinImprovement, 80}
TargetArgs == {<<>>, <<"ORDERS">>}

\* the recommendation dictionaries the advisor returns (section 3)
Recs ==
    [table : TableNames, columns : ColumnLists,
     estimated_improvement_percent : Improvements, estimated_size : Sizes]

Imp(r) == r.estimated_improvement_percent

IsPrefix(s, t) == Len(s) <= Len(t) /\ SubSeq(t, 1, Len(s)) = s

\* same table, and one column list equals or is a prefix of the other
Redundant(x, y) ==
    /\ x.table = y.table
    /\ (IsPrefix(x.columns, y.columns) \/ IsPrefix(y.columns, x.columns))

\* string order of the names in use (code-point order)
NameRank(n) ==
    CASE n = "Orders" -> 1 [] n = "a" -> 2 [] n = "b" -> 3 [] n = "users" -> 4

RECURSIVE ListLE(_, _)
ListLE(s, t) ==
    IF s = <<>> THEN TRUE
    ELSE IF t = <<>> THEN FALSE
    ELSE IF NameRank(Head(s)) # NameRank(Head(t))
         THEN NameRank(Head(s)) < NameRank(Head(t))
         ELSE ListLE(Tail(s), Tail(t))

\* (size, table, columns) of x is not behind that of y
TieLE(x, y) ==
    \/ x.estimated_size < y.estimated_size
    \/ /\ x.estimated_size = y.estimated_size
       /\ \/ NameRank(x.table) < NameRank(y.table)
          \/ /\ x.table = y.table
             /\ ListLE(x.columns, y.columns)

\* What one run of the advisor (analyze_query, analyze_workload) returns,
\* after section 4.3: candidates are merged (MERGE) and listed best first
\* with the tie-break of SELECT.
WellFormed(recs) ==
    \A a, b \in 1..Len(recs) :
        a < b => /\ ~Redundant(recs[a], recs[b])
                 /\ \/ Imp(recs[a]) > Imp(recs[b])
                    \/ /\ Imp(recs[a]) = Imp(recs[b])
                       /\ TieLE(recs[a], recs[b])

AdvisorResults == [n \in 0..MaxRecs |-> {recs \in SeqsUpTo(Recs, n) : WellFormed(recs)}]

\* str.lower() on the table names in use
Lower(t) ==
    CASE t = "ORDERS" -> "orders"
      [] t = "Orders" -> "orders"
      [] OTHER        -> t

\* if target_tables: keep r with r["table"].lower() in target_set
FilterByTables(recs, target_tables) ==
    IF target_tables = <<>> THEN recs
    ELSE LET target_set == {Lower(target_tables[k]) :
                               k \in 1..Len(target_tables)}
             Keep(r) == Lower(r.table) \in target_set
         IN  SelectSeq(recs, Keep)

\* the threshold filter left out
FilterByImprovement_none(recs, min_improvement) == recs

\* keep r with estimated_improvement_percent >= min_improvement
FilterByImprovement(recs, min_improvement) ==
    LET Keep(r) == r.estimated_improvement_percent >= min_improvement
    IN  SelectSeq(recs, Keep)

\* list.sort(key = improvement, reverse = True): stable, so equal keys keep
\* their relative order.  Insert r behind every element whose key is >= its.
RECURSIVE InsertDesc(_, _)
InsertDesc(sorted, r) ==
    IF sorted = <<>> THEN <<r>>
    ELSE IF Head(sorted).estimated_improvement_percent
                >= r.estimated_improvement_percent
         THEN <<Head(sorted)>> \o InsertDesc(Tail(sorted), r)
         ELSE <<r>> \o sorted

RECURSIVE SortFrom(_, _)
SortFrom(sorted, rest) ==
    IF rest = <<>> THEN sorted
    ELSE SortFrom(InsertDesc(sorted, Head(rest)), Tail(rest))

\* the sort left out: the filtered list keeps the advisor's order
SortByImprovement_unsorted(recs) == recs

SortByImprovement(recs) == SortFrom(<<>>, recs)

\* recommendations[:max_recommendations] for max_recommendations >= 1
Limit(recs, max_recommendations) ==
    IF Len(recs) <= max_recommendations THEN recs
    ELSE SubSeq(recs, 1, max_recommendations)

\* the synchronous tail of run_tool between the last analysis and the
\* availability probe
SelectRecommendations(all, target_tables, min_improvement, max_recommendations) ==
    Limit(SortByImprovement(
              FilterByImprovement(FilterByTables(all, target_tables),
                                  min_improvement)),
          max_recommendations)

AdvIdle ==
    [pc |-> "idle", workload_queries |-> <<>>, i |-> 0,
     max_recommendations |-> 0, min_improvement |-> 0,
     target_tables |-> <<>>, all_recommendations |-> <<>>,
     recommendations |-> <<>>, analysis_source |-> "none",
     failed |-> FALSE, hypopg_available |-> FALSE,
     total_recommendations |-> 0, message |-> FALSE, result |-> "none",
     supplied |-> <<>>, analyzed |-> <<>>, workload_requests |-> 0]

\* After the last analysis: filter, sort and cap, then probe the extension.
\* max_recommendations, min_improvement_percent and target_tables are read at
\* entry and first used here, so they are drawn here; the loop is over.
Collected(r, all) ==
    \E cap \in 1..MaxCap, m \in Thresholds, tt \in TargetArgs :
        adv' = [r EXCEPT
                  !.workload_queries = <<>>,
                  !.i = 0,
                  !.max_recommendations = cap,
                  !.min_improvement = m,
                  !.target_tables = tt,
                  !.all_recommendations = all,
                  !.recommendations = SelectRecommendations(all, tt, m, cap),
                  !.pc = "check_hypopg"]

\* a test for presence only, which an empty list passes
HasWorkload_notNone(workload_queries) == TRUE

\* if workload_queries: (None and the empty list are false)
HasWorkload(workload_queries) == workload_queries # <<>>

AdvInvoke ==
    /\ adv.pc = "idle"
    /\ \E qs \in Workloads :
         LET r == [AdvIdle EXCEPT
                     !.workload_queries = qs,
                     !.supplied = qs,
                     !.i = 1,
                     !.analysis_source =
                         IF HasWorkload(qs) THEN "provided_queries"
                         ELSE "pg_stat_statements"]
         IN  IF ~HasWorkload(qs)
             THEN adv' = [r EXCEPT !.pc = "analyze_workload"]
             ELSE IF qs = <<>>
             THEN Collected(r, <<>>)            \* a loop over nothing
             ELSE adv' = [r EXCEPT !.pc = "analyze_query"]
    /\ UNCHANGED <<hypoVars, toolVars>>

\* analyze_query(query) returned recs: all_recommendations.extend(recs)
AdvAnalyzeQuery ==
    /\ adv.pc = "analyze_query"
    /\ \E recs \in AdvisorResults[MaxRecs - Len(adv.all_recommendations)] :
         LET all == adv.all_recommendations \o recs
             r == [adv EXCEPT
                     !.analyzed = Append(@, adv.workload_queries[adv.i])]
         IN  IF adv.i = Len(adv.workload_queries)
             THEN Collected(r, all)
             ELSE adv' = [r EXCEPT !.all_recommendations = all,
                                   !.i = @ + 1]
    /\ UNCHANGED <<hypoVars, toolVars>>

\* an exception leaves run_tool through the outer except: format_error
AdvFail(r) ==
    [r EXCEPT !.failed = TRUE, !.pc = "done", !.result = "error"]

\* analyze_query(query) raised
AdvAnalyzeQueryRaises ==
    /\ adv.pc = "analyze_query"
    /\ adv' = AdvFail([adv EXCEPT
                         !.analyzed = Append(@, adv.workload_queries[adv.i])])
    /\ UNCHANGED <<hypoVars, toolVars>>

\* analyze_workload(limit = 50, min_calls = 5) returned
AdvAnalyzeWorkload ==
    /\ adv.pc = "analyze_workload"
    /\ \E recs \in AdvisorResults[MaxRecs] :
         Collected([adv EXCEPT !.workload_requests = @ + 1], recs)
    /\ UNCHANGED <<hypoVars, toolVars>>

AdvAnalyzeWorkloadRaises ==
    /\ adv.pc = "analyze_workload"
    /\ adv' = AdvFail([adv EXCEPT !.workload_requests = @ + 1])
    /\ UNCHANGED <<hypoVars, toolVars>>

\* a message attached to every output
HasMessage_always(recommendations) == TRUE

\* if not recommendations: output["message"] = ...
HasMessage(recommendations) == recommendations = <<>>

\* check_hypopg_available() returned: build the output
AdvEmit ==
    /\ adv.pc = "check_hypopg"
    /\ adv' = [adv EXCEPT !.hypopg_available = available,
                          !.total_recommendations = Len(adv.recommendations),
                          !.message = HasMessage(adv.recommendations),
                          !.pc = "done", !.result = "json"]
    /\ UNCHANGED <<hypoVars, toolVars>>

NextAdvisor ==
    \/ AdvInvoke
    \/ AdvAnalyzeQuery
    \/ AdvAnalyzeQueryRaises
    \/ AdvAnalyzeWorkload
    \/ AdvAnalyzeWorkloadRaises
    \/ AdvEmit

(***************************************************************************)
(* get_slow_queries and get_table_stats (tools_performance.py)             *)
(***************************************************************************)
\* arguments is a dict: a function from the keys present to their values
NoArguments == [k \in {} |-> 0]

OptArg(key, values) == {NoArguments} \cup {[k \in {key} |-> v] : v \in values}

\* arguments.get(key, default)
Get(arguments, key, default) ==
    IF key \in DOMAIN arguments THEN arguments[key] ELSE default

\* order_by values a caller may send: the slow-query enum, a value of the
\* other tool's enum, and text that is not a column at all
SlowOrderByValues ==
    {"mean_time", "calls", "rows", "size", "calls; DROP TABLE t"}

TableOrderByValues ==
    {"size", "rows", "dead_tuples", "seq_scans", "last_vacuum", "mean_time",
     "size; DROP TABLE t"}

SlowArguments ==
    {o @@ l @@ c @@ t :
        o \in OptArg("order_by", SlowOrderByValues),
        l \in OptArg("limit", {5}),
        c \in OptArg("min_calls", {3}),
        t \in OptArg("min_mean_time_ms", {7})}

TableArguments ==
    {o @@ n @@ t @@ x :
        o \in OptArg("order_by", TableOrderByValues),
        n \in OptArg("schema_name", {"app"}),
        t \in OptArg("table_name", {"orders", ""}),
        x \in OptArg("include_indexes", BOOLEAN)}

\* order_map of GetSlowQueriesToolHandler.run_tool
SlowOrderMap ==
    [mean_time |-> "mean_exec_time", calls |-> "calls", rows |-> "rows"]

\* order_map of TableStatsToolHandler.run_tool
TableOrderMap ==
    [size |-> "total_size DESC", rows |-> "n_live_tup DESC",
     dead_tuples |-> "n_dead_tup DESC", seq_scans |-> "seq_scan DESC",
     last_vacuum |-> "last_vacuum DESC NULLS LAST"]

\* the caller's order_by interpolated as it came
OrderText_raw(order_map, order_by, default) ==
    IF order_by \in DOMAIN order_map THEN order_map[order_by] ELSE order_by

\* if order_by not in order_map: order_by = default; order_map[order_by]
OrderText(order_map, order_by, default) ==
    IF order_by \in DOMAIN order_map
    THEN order_map[order_by] ELSE order_map[default]

\* one execute_query call: the statement, the text interpolated into it
\* (f-string fields) and the bound parameters (%s)
Statement(kind, interpolated, params) ==
    [kind |-> kind, interpolated |-> interpolated, params |-> params]

PerfIdle ==
    [tool |-> "none", pc |-> "idle", arguments |-> NoArguments,
     order_text |-> "", check_result |-> "none", issued |-> <<>>,
     rows |-> 0, result |-> "none"]

PerfFinish(r, kind) == [r EXCEPT !.pc = "done", !.result = kind]

(* ---- get_slow_queries ---- *)
SlowInvoke ==
    /\ perf.pc = "idle"
    /\ \E arguments \in SlowArguments :
         perf' = [PerfIdle EXCEPT
                    !.tool = "get_slow_queries",
                    !.arguments = arguments,
                    !.order_text =
                        OrderText(SlowOrderMap,
                                  Get(arguments, "order_by", "mean_time"),
                                  "mean_time"),
                    !.pc = "check_extension"]
    /\ UNCHANGED notPerf

CheckStatement == Statement("check_extension", <<>>, <<>>)

\* any row counts as installed
ExtensionAvailable_anyRow(answer) == answer # "no_row"

\* not (not check_result or not check_result[0].get("available"))
ExtensionAvailable(answer) == answer = "true"

\* the pg_extension probe answers: no row, available = false or true
SlowCheck ==
    /\ perf.pc = "check_extension"
    /\ \E answer \in {"no_row", "false", "true"} :
         LET r == [perf EXCEPT !.issued = Append(@, CheckStatement),
                               !.check_result = answer]
         IN  perf' = IF ExtensionAvailable(answer)
                     THEN [r EXCEPT !.pc = "query_statements"]
                     ELSE PerfFinish(r, "not_installed")
    /\ UNCHANGED notPerf

SlowCheckRaises ==
    /\ perf.pc = "check_extension"
    /\ perf' = PerfFinish([perf EXCEPT !.issued = Append(@, CheckStatement)],
                          "error")
    /\ UNCHANGED notPerf

\* get_user_filter().get_statements_filter(): text from the server's
\* configuration, none excluded here
StatementsFilter == ""

SlowStatement(r) ==
    Statement("pg_stat_statements", <<StatementsFilter, r.order_text>>,
              <<Get(r.arguments, "min_calls", 1),
                Get(r.arguments, "min_mean_time_ms", 0),
                Get(r.arguments, "limit", 10)>>)

SlowQuery ==
    /\ perf.pc = "query_statements"
    /\ \E rows \in 0..1 :
         perf' = PerfFinish([perf EXCEPT
                               !.issued = Append(@, SlowStatement(perf)),
                               !.rows = rows],
                            IF rows = 0 THEN "no_slow_queries" ELSE "json")
    /\ UNCHANGED notPerf

SlowQueryRaises ==
    /\ perf.pc = "query_statements"
    /\ perf' = PerfFinish([perf EXCEPT
                             !.issued = Append(@, SlowStatement(perf))],
                          "error")
    /\ UNCHANGED notPerf

(* ---- get_table_stats ---- *)
TableInvoke ==
    /\ perf.pc = "idle"
    /\ \E arguments \in TableArguments :
         perf' = [PerfIdle EXCEPT
                    !.tool = "get_table_stats",
                    !.arguments = arguments,
                    !.order_text =
                        OrderText(TableOrderMap,
                                  Get(arguments, "order_by", "size"), "size"),
                    !.pc = "query_tables"]
    /\ UNCHANGED notPerf

\* if table_name: (None and the empty string are false)
HasTableName(arguments) == Get(arguments, "table_name", "") # ""

TableStatement(r) ==
    Statement("table_stats",
              <<IF HasTableName(r.arguments)
                THEN "AND c.relname ILIKE %s" ELSE "", r.order_text>>,
              IF HasTableName(r.arguments)
              THEN <<Get(r.arguments, "schema_name", "public"),
                     r.arguments["table_name"]>>
              ELSE <<Get(r.arguments, "schema_name", "public")>>)

TableQuery ==
    /\ perf.pc = "query_tables"
    /\ \E rows \in 0..1 :
         LET r == [perf EXCEPT !.issued = Append(@, TableStatement(perf)),
                               !.rows = rows]
         IN  perf' =
               IF rows = 0 THEN PerfFinish(r, "no_tables")
               ELSE IF Get(r.arguments, "include_indexes", TRUE)
                       /\ HasTableName(r.arguments)
               THEN [r EXCEPT !.pc = "query_indexes"]
               ELSE PerfFinish(r, "json")
    /\ UNCHANGED notPerf

TableQueryRaises ==
    /\ perf.pc = "query_tables"
    /\ perf' = PerfFinish([perf EXCEPT
                             !.issued = Append(@, TableStatement(perf))],
                          "error")
    /\ UNCHANGED notPerf

IndexStatement(r) ==
    Statement("index_stats", <<>>,
              <<Get(r.arguments, "schema_name", "public"),
                r.arguments["table_name"]>>)

TableIndexQuery ==
    /\ perf.pc = "query_indexes"
    /\ \E kind \in {"json", "error"} :
         perf' = PerfFinish([perf EXCEPT
                               !.issued = Append(@, IndexStatement(perf))],
                            kind)
    /\ UNCHANGED notPerf

PerfReturn ==
    /\ perf.pc = "done"
    /\ perf' = PerfIdle
    /\ UNCHANGED notPerf

NextPerf ==
    \/ SlowInvoke
    \/ SlowCheck
    \/ SlowCheckRaises
    \/ SlowQuery
    \/ SlowQueryRaises
    \/ TableInvoke
    \/ TableQuery
    \/ TableQueryRaises
    \/ TableIndexQuery
    \/ PerfReturn

(***************************************************************************)
(* The connection pool and the SQL driver (services/sql_driver.py), after  *)
(* section 6 and tests/test_services.py                                    *)
(***************************************************************************)
MaxExecuted == 4       \* statements a behaviour executes on the pool

\* DbConnPool(connection_url): the URL may be missing (None)
ConnectionUrls == {"None", "postgresql://localhost/test"}

\* pools built with and without a URL
PoolEnv ==
    [clients |-> {}, costs |-> {}, urls |-> ConnectionUrls,
     hashes |-> {}, metrics |-> {},
     handlers |-> [c \in Clients |-> "handler"]]

\* why no pool is open, or "open"
NoPoolPhases == {"never_connected", "connect_failed", "closed"}

NoOp == [op |-> "none", phase_before |-> "never_connected",
         executed_before |-> 0, outcome |-> "none"]

\* the pool after construction: pool.pool is None
NewPool(url) ==
    [connection_url |-> url, phase |-> "never_connected", executed |-> 0,
     last |-> NoOp]

Called(d, op, outcome) ==
    [op |-> op, phase_before |-> d.phase, executed_before |-> d.executed,
     outcome |-> outcome]

\* a driver that runs the statement whether or not a pool is open
CanExecute_always(phase) == TRUE

\* SqlDriver.execute_query needs an open pool
CanExecute(phase) == phase = "open"

\* DbConnPool.connect: ValueError without a URL; the server itself may be
\* unreachable; otherwise the pool is open
PoolConnect ==
    /\ db.phase # "open"
    /\ \E reachable \in BOOLEAN :
         db' = IF db.connection_url = "None"
               THEN [db EXCEPT !.phase = "connect_failed",
                               !.last = Called(db, "connect", "not_provided")]
               ELSE IF ~reachable
               THEN [db EXCEPT !.phase = "connect_failed",
                               !.last = Called(db, "connect", "error")]
               ELSE [db EXCEPT !.phase = "open",
                               !.last = Called(db, "connect", "ok")]
    /\ UNCHANGED notDb

\* DbConnPool.close: closes an open pool, nothing to do otherwise
PoolClose ==
    /\ db' = [db EXCEPT !.phase = IF @ = "open" THEN "closed" ELSE @,
                        !.last = Called(db, "close", "ok")]
    /\ UNCHANGED notDb

\* SqlDriver.execute_query
ExecuteQuery ==
    /\ db.executed < MaxExecuted
    /\ db' = IF CanExecute(db.phase)
             THEN [db EXCEPT !.executed = @ + 1,
                             !.last = Called(db, "execute_query", "rows")]
             ELSE [db EXCEPT
                     !.last = Called(db, "execute_query", "not_connected")]
    /\ UNCHANGED notDb

NextPool ==
    \/ PoolConnect
    \/ PoolClose
    \/ ExecuteQuery

(***************************************************************************)
(* Required arguments: ToolHandler.validate_required_args and the handlers *)
(* that call it                                                            *)
(***************************************************************************)
\* values an argument may carry: JSON null, an empty string, a value
ArgValues == {"None", "", "value"}

\* where validate_required_args is called: the tool, the action that
\* selects the call, the required names as declared, and the first service
\* or SQL call of the path behind it
ValidationSites ==
    {[tool |-> "explain_with_indexes", action |-> "",
      required |-> <<"query">>, first_call |-> "execute_query"],
     [tool |-> "analyze_query", action |-> "",
      required |-> <<"query">>, first_call |-> "execute_query"],
     [tool |-> "get_query_rewrite_suggestions", action |-> "",
      required |-> <<"query">>, first_call |-> "none"],
     [tool |-> "manage_hypothetical_indexes", action |-> "create",
      required |-> <<"table", "columns">>,
      first_call |-> "create_hypothetical_index"],
     [tool |-> "manage_hypothetical_indexes", action |-> "drop",
      required |-> <<"index_id">>, first_call |-> "drop_hypothetical_index"],
     [tool |-> "manage_hypothetical_indexes", action |-> "estimate_size",
      required |-> <<"table", "columns">>,
      first_call |-> "create_hypothetical_index"],
     [tool |-> "manage_query_plan_history", action |-> "",
      required |-> <<"action">>, first_call |-> "none"],
     [tool |-> "manage_query_plan_history", action |-> "store",
      required |-> <<"query">>, first_call |-> "execute_query"]}

\* the dicts over the required names: each name absent, null, empty or set
ArgumentsOver(names) ==
    UNION {[keys -> ArgValues] : keys \in SUBSET names}

\* arg not in arguments or arguments[arg] is None
IsMissing(arguments, arg) ==
    arg \notin DOMAIN arguments \/ arguments[arg] = "None"

\* a check for absent names only
ValidateRequiredArgs_absentOnly(arguments, required) ==
    SelectSeq(required, LAMBDA arg : arg \notin DOMAIN arguments)

\* missing = [arg for arg in required if ...]: the names that make
\* validate_required_args raise, in the order of the required list
ValidateRequiredArgs(arguments, required) ==
    SelectSeq(required, LAMBDA arg : IsMissing(arguments, arg))

\* _store_plan validates only "if not query" (None and "" are false)
SiteMissing(site, arguments) ==
    IF site.action = "store" /\ "query" \in DOMAIN arguments
          /\ arguments["query"] \notin {"None", ""}
    THEN <<>>
    ELSE ValidateRequiredArgs(arguments, site.required)

ValIdle ==
    [pc |-> "idle", tool |-> "none", action |-> "", required |-> <<>>,
     first_call |-> "none", arguments |-> NoArguments, missing |-> <<>>,
     texts |-> <<>>, raised |-> FALSE, service_calls |-> <<>>]

\* run_tool up to its first await: the ValueError of the validation is
\* caught by the handler's except and becomes the only text of the result
ValInvoke ==
    /\ val.pc = "idle"
    /\ \E site \in ValidationSites :
         \E arguments \in ArgumentsOver(Range(site.required)) :
           LET missing == SiteMissing(site, arguments)
               r == [ValIdle EXCEPT !.tool = site.tool,
                                    !.action = site.action,
                                    !.required = site.required,
                                    !.first_call = site.first_call,
                                    !.arguments = arguments,
                                    !.missing = missing]
           IN  val' = IF missing # <<>>
                      THEN [r EXCEPT
                              !.pc = "done",
                              !.texts =
                                <<[prefix |-> "Error: ",
                                   message |-> "Missing required arguments: ",
                                   names |-> missing]>>]
                      ELSE [r EXCEPT !.pc = "validated"]
    /\ UNCHANGED notVal

\* the handler goes on to its first service or SQL call, if it has one
ValProceed ==
    /\ val.pc = "validated"
    /\ val' = [val EXCEPT
                 !.pc = "done",
                 !.service_calls =
                     IF val.first_call = "none" THEN <<>>
                     ELSE <<val.first_call>>,
                 !.texts = <<[prefix |-> "", message |-> "result",
                              names |-> <<>>]>>]
    /\ UNCHANGED notVal

ValReturn ==
    /\ val.pc = "done"
    /\ val' = ValIdle
    /\ UNCHANGED notVal

NextValidate ==
    \/ ValInvoke
    \/ ValProceed
    \/ ValReturn

(***************************************************************************)
(* The tool registry (server.py) and the tool definitions (toolhandler.py) *)
(***************************************************************************)
\* handlers register_all_tools adds whose classes are in the sources
HandlerNames ==
    {"get_slow_queries", "analyze_query", "get_index_recommendations",
     "manage_hypothetical_indexes"}

\* what class ToolHandler gives its subclasses
ToolHandlerMethods ==
    {"get_tool_definition", "run_tool", "validate_required_args",
     "format_error", "format_result", "format_json_result"}

\* what get_tool_definition of every handler calls on self while it builds
\* Tool(name=self.name, ..., annotations=self.get_annotations())
DefinitionUses == {"get_annotations"}

\* get_tool_definition: the definition, or the AttributeError of a call to
\* a method the handler does not have
GetToolDefinition(name, methods) ==
    IF DefinitionUses \subseteq methods
    THEN [raised |-> FALSE, name |-> name]
    ELSE [raised |-> TRUE, name |-> ""]

\* call_tool at rest: no request, nothing answered
NoCall ==
    [pc |-> "idle", name |-> "", arguments |-> "none", invoked |-> FALSE,
     handler_raised |-> FALSE, raised |-> FALSE, items |-> 0, text |-> ""]

RegIdle ==
    [tool_handlers |-> <<>>, listed |-> "none", tools |-> <<>>,
     listed_handlers |-> <<>>, call |-> NoCall]

\* add_tool_handler: tool_handlers[tool_handler.name] = tool_handler; a dict
\* keeps insertion order and one entry per name
AddToolHandler ==
    /\ \E name \in HandlerNames :
         reg' = [reg EXCEPT !.tool_handlers =
                    IF name \in Range(@) THEN @ ELSE Append(@, name)]
    /\ UNCHANGED notReg

\* list_tools: [handler.get_tool_definition() for handler in
\* tool_handlers.values()]; an exception is logged and raised again
ListTools ==
    /\ LET defs == [k \in 1..Len(reg.tool_handlers) |->
                      GetToolDefinition(reg.tool_handlers[k],
                                        ToolHandlerMethods)]
       IN  reg' = IF \E k \in 1..Len(defs) : defs[k].raised
                  THEN [reg EXCEPT !.listed = "raised", !.tools = <<>>,
                                   !.listed_handlers = reg.tool_handlers]
                  ELSE [reg EXCEPT !.listed = "returned", !.tools = defs,
                                   !.listed_handlers = reg.tool_handlers]
    /\ UNCHANGED notReg

NextRegistry ==
    \/ AddToolHandler
    \/ ListTools

\* names a client may call: the registered ones and one that is not
ToolNames == HandlerNames \cup {"no_such_tool"}

\* what a client may send as arguments: a JSON object, array or null
ArgumentKinds == {"dict", "list", "None"}

IsDict_anything(arguments) == TRUE

\* isinstance(arguments, dict)
IsDict(arguments) == arguments = "dict"

\* get_tool_handler(name) is not None
IsRegistered(name) == name \in Range(reg.tool_handlers)

\* the except branch: one TextContent "Error executing tool '<name>': ..."
ErrorAnswer(call) ==
    [call EXCEPT !.pc = "done", !.items = 1,
                 !.text = "Error executing tool"]

\* call_tool up to the await of run_tool
CallTool ==
    /\ reg.call.pc = "idle"
    /\ \E name \in ToolNames, arguments \in ArgumentKinds :
         LET call == [NoCall EXCEPT !.name = name, !.arguments = arguments]
         IN  reg' = [reg EXCEPT !.call =
                        IF ~IsDict(arguments) THEN ErrorAnswer(call)
                        ELSE IF ~IsRegistered(name) THEN ErrorAnswer(call)
                        ELSE [call EXCEPT !.pc = "run_tool",
                                          !.invoked = TRUE]]
    /\ UNCHANGED notReg

\* run_tool returned its content, which call_tool returns
RunToolReturns ==
    /\ reg.call.pc = "run_tool"
    /\ reg' = [reg EXCEPT !.call.pc = "done", !.call.items = 1,
                          !.call.text = "handler"]
    /\ UNCHANGED notReg

\* run_tool raised an Exception, which call_tool catches
RunToolRaises ==
    /\ reg.call.pc = "run_tool"
    /\ reg' = [reg EXCEPT !.call =
                   ErrorAnswer([reg.call EXCEPT !.handler_raised = TRUE])]
    /\ UNCHANGED notReg

CallToolReturn ==
    /\ reg.call.pc = "done"
    /\ reg' = [reg EXCEPT !.call = NoCall]
    /\ UNCHANGED notReg

NextCalls ==
    \/ AddToolHandler
    \/ CallTool
    \/ RunToolReturns
    \/ RunToolRaises
    \/ CallToolReturn

(***************************************************************************)
(* main (server.py): the life of the global connection pool                *)
(***************************************************************************)
\* --database-url and DATABASE_URI as the process may find them: not set,
\* empty, or a URL
UrlSettings == {"None", "", "postgresql://localhost/test"}

Modes == {"stdio", "sse", "streamable-http"}

\* Python truthiness of an optional string
Truthy(value) == value \notin {"None", ""}

\* args.database_url or os.environ.get("DATABASE_URI")
DatabaseUrl(argument, environment) ==
    IF Truthy(argument) THEN argument ELSE environment

\* main before it runs: db_pool is None, no handler registered
MainIdle ==
    [pc |-> "start", mode |-> "stdio", argument |-> "None",
     environment |-> "None", database_url |-> "None",
     db_pool |-> "None", connects |-> 0, initialized |-> FALSE,
     registered |-> FALSE, cleanups |-> 0, exit |-> "none"]

\* get_db_pool: RuntimeError while db_pool is None
GetDbPool(db_pool) ==
    IF db_pool = "None" THEN "RuntimeError" ELSE db_pool

\* a cleanup that closes the pool and keeps the reference
CleanupDbPool_keeps(db_pool) == db_pool

\* cleanup_db_pool, close having returned: db_pool = None
CleanupDbPool(db_pool) == "None"

\* main up to the first await: the arguments, the URL, sys.exit(1) without
\* one, else initialize_db_pool up to "await db_pool.connect()"
MainStart ==
    /\ srv.pc = "start"
    /\ \E mode \in Modes, argument \in UrlSettings,
          environment \in UrlSettings :
         LET database_url == DatabaseUrl(argument, environment)
             r == [srv EXCEPT !.mode = mode, !.argument = argument,
                              !.environment = environment,
                              !.database_url = database_url]
         IN  srv' = IF ~Truthy(database_url)
                    THEN [r EXCEPT !.pc = "finally", !.exit = "SystemExit"]
                    ELSE [r EXCEPT !.pc = "connect", !.db_pool = "pool",
                                   !.connects = 1]
    /\ UNCHANGED notSrv

\* connect returned: register_all_tools, then run_server is awaited
MainRegister ==
    /\ srv.pc = "connect"
    /\ GetDbPool(srv.db_pool) # "RuntimeError"
    /\ srv' = [srv EXCEPT !.pc = "run_server", !.initialized = TRUE,
                          !.registered = TRUE]
    /\ UNCHANGED notSrv

\* connect raised
MainConnectFails ==
    /\ srv.pc = "connect"
    /\ srv' = [srv EXCEPT !.pc = "finally", !.exit = "connect_failed"]
    /\ UNCHANGED notSrv

\* connect returned and register_all_tools raised
MainRegisterFails ==
    /\ srv.pc = "connect"
    /\ srv' = [srv EXCEPT !.pc = "finally", !.initialized = TRUE,
                          !.exit = "register_failed"]
    /\ UNCHANGED notSrv

\* run_server returned, or raised
MainServerEnds ==
    /\ srv.pc = "run_server"
    /\ \E exit \in {"stopped", "crashed"} :
         srv' = [srv EXCEPT !.pc = "finally", !.exit = exit]
    /\ UNCHANGED notSrv

\* finally: await cleanup_db_pool()
MainCleanup ==
    /\ srv.pc = "finally"
    /\ srv' = [srv EXCEPT !.pc = "exited", !.cleanups = @ + 1,
                          !.db_pool = IF @ = "None" THEN "None"
                                      ELSE CleanupDbPool(@)]
    /\ UNCHANGED notSrv

NextMain ==
    \/ MainStart
    \/ MainRegister
    \/ MainConnectFails
    \/ MainRegisterFails
    \/ MainServerEnds
    \/ MainCleanup

(***************************************************************************)
(* manage_query_plan_history (tools_query_history.py): store and clear     *)
(***************************************************************************)
MaxStores == 3         \* store requests per behaviour

\* a query is its sequence of characters
Whitespace == {" ", "\n"}

Queries ==
    {<<"a", "b">>, <<"a", " ", "b">>, <<" ", "a", "\n", " ", "b", " ">>}

\* arguments.get("label", ""): requests carry no label
DefaultLabel == ""

\* query.split(): the maximal runs of non-whitespace characters
RECURSIVE SplitFrom(_, _, _, _)
SplitFrom(query, k, word, words) ==
    LET closed == IF word = <<>> THEN words ELSE Append(words, word)
    IN  IF k > Len(query) THEN closed
        ELSE IF query[k] \in Whitespace
        THEN SplitFrom(query, k + 1, <<>>, closed)
        ELSE SplitFrom(query, k + 1, Append(word, query[k]), words)

Split(query) == SplitFrom(query, 1, <<>>, <<>>)

\* " ".join(words)
RECURSIVE Join(_)
Join(words) ==
    IF words = <<>> THEN <<>>
    ELSE IF Len(words) = 1 THEN words[1]
    ELSE words[1] \o <<" ">> \o Join(Tail(words))

\* a hash of the text as it came
GenerateQueryHash_raw(query) == query

\* _generate_query_hash: the digest of the whitespace-normalized text; the
\* digest stands for its preimage (no collisions)
GenerateQueryHash(query) == Join(Split(query))

NoHistory == [h \in {} |-> <<>>]

\* a store that keeps only the latest plan of a query
StorePlan_replaces(history, query_hash, plan_entry) ==
    [h \in DOMAIN history \cup {query_hash} |->
        IF h = query_hash THEN <<plan_entry>> ELSE history[h]]

\* _plan_history[query_hash].append(plan_entry), creating the list first
StorePlan(history, query_hash, plan_entry) ==
    IF query_hash \in DOMAIN history
    THEN [history EXCEPT ![query_hash] = Append(@, plan_entry)]
    ELSE history @@ (query_hash :> <<plan_entry>>)

NoPlanIndex == 0 - 1

\* no text answered
NoMessage == ""

NoComparison ==
    [changes |-> <<>>, summary |-> "", improved |-> FALSE,
     regressed |-> FALSE]

\* an activation of run_tool: its arguments (query_arg and hash_arg as
\* sent, <<>> for one that is absent or empty), its answer, the positions
\* of the list it read and the history before and after it
HistIdle ==
    [pc |-> "idle", action |-> "none", query |-> <<>>, label |-> "",
     query_hash |-> <<>>, plan_index |-> NoPlanIndex, timestamp |-> 0,
     result |-> "none", before |-> NoHistory, after |-> NoHistory,
     hash_arg |-> <<>>, plan_index_1 |-> 0, plan_index_2 |-> 0,
     index_1 |-> NoPlanIndex, index_2 |-> NoPlanIndex,
     message |-> NoMessage, count |-> 0, reads |-> {},
     comparison |-> NoComparison]

HSet(c, r) == hist' = [hist EXCEPT ![c] = r]

\* run_tool with action = store, up to the EXPLAIN
StoreInvoke(c) ==
    /\ hist[c].pc = "idle"
    /\ stores < MaxStores
    /\ stores' = stores + 1
    /\ \E query \in env.stored :
         HSet(c, [HistIdle EXCEPT !.action = "store",
                                  !.query = query,
                                  !.label = DefaultLabel,
                                  !.query_hash = GenerateQueryHash(query),
                                  !.pc = "explain"])
    /\ UNCHANGED <<plan_history, issued, notHist>>

\* the EXPLAIN returned a plan: build the entry, append it, report
StoreExplain(c) ==
    /\ hist[c].pc = "explain"
    /\ LET r == hist[c]
       IN  \E metrics \in env.metrics :
           LET plan_entry == [timestamp |-> stores, label |-> r.label,
                              query |-> r.query, metrics |-> metrics,
                              handler |-> env.handlers[c]]
               stored == StorePlan(plan_history, r.query_hash, plan_entry)
           IN
           /\ plan_history' = stored
           /\ issued' = Append(issued, <<r.query_hash,
                                         Len(stored[r.query_hash]) - 1>>)
           /\ HSet(c, [r EXCEPT
                         !.pc = "done", !.result = "json",
                         !.timestamp = stores,
                         !.plan_index = Len(stored[r.query_hash]) - 1,
                         !.before = plan_history,
                         !.after = stored])
    /\ UNCHANGED <<stores, notHist>>

\* the EXPLAIN returned no rows ("No execution plan returned"), or it or
\* the parsing of the plan raised (format_error)
StoreExplainFails(c) ==
    /\ hist[c].pc = "explain"
    /\ \E kind \in {"text", "error"} :
         HSet(c, [hist[c] EXCEPT !.pc = "done", !.result = kind,
                                 !.before = plan_history,
                                 !.after = plan_history])
    /\ UNCHANGED <<plan_history, stores, issued, notHist>>

\* the query argument of get, compare and clear: absent, or a query
QueryArguments == {<<>>} \cup Queries

\* the query_hash argument: absent, a hash some store answered, or another
HashArguments ==
    {<<>>, <<"z">>} \cup {GenerateQueryHash(query) : query \in Queries}

\* plan_index_1 and plan_index_2 as a caller may send them
PlanIndexes1 == (0 - 1)..MaxStores

PlanIndexes2 == (0 - MaxStores - 1)..MaxStores

\* "if not query_hash and query: query_hash = _generate_query_hash(query)"
ResolveKey(query_hash, query) ==
    IF query_hash = <<>> /\ query # <<>>
    THEN GenerateQueryHash(query)
    ELSE query_hash

\* a read request on arrival
ReadRequest(action, query_hash, query) ==
    [HistIdle EXCEPT !.action = action, !.pc = "done",
                     !.hash_arg = query_hash, !.query = query,
                     !.query_hash = ResolveKey(query_hash, query),
                     !.before = plan_history, !.after = plan_history]

Answer(r, result, message) ==
    [r EXCEPT !.result = result, !.message = message]

\* action = get
GetPlans(c) ==
    /\ hist[c].pc = "idle"
    /\ \E hash_arg \in env.hashes, query \in env.queries :
         LET r == ReadRequest("get", hash_arg, query)
             query_hash == r.query_hash
         IN  IF query_hash = <<>>
             THEN HSet(c, Answer(r, "text", "Error: Either query_hash or query is required"))
             ELSE IF query_hash \notin DOMAIN plan_history
             THEN HSet(c, Answer(r, "text", "No stored plans found"))
             ELSE HSet(c, [Answer(r, "json", NoMessage) EXCEPT
                             !.count = Len(plan_history[query_hash]),
                             !.reads = 0..(Len(plan_history[query_hash]) - 1)])
    /\ UNCHANGED <<plan_history, stores, issued, notHist>>

\* a metric both plans report with a non-zero value
Comparable(before, after) == before # 0 /\ after # 0

Status(difference) ==
    IF difference < 0 THEN "improved"
    ELSE IF difference > 0 THEN "regressed" ELSE "unchanged"

Change(metric, before, after) ==
    [metric |-> metric, before |-> before, after |-> after,
     status |-> Status(after - before)]

Summary(improved, regressed) ==
    IF improved /\ ~regressed THEN "Query performance improved"
    ELSE IF regressed /\ ~improved
    THEN "Query performance regressed - investigate changes"
    ELSE IF improved /\ regressed
    THEN "Mixed results - some metrics improved, others regressed"
    ELSE "No significant changes detected"

\* a comparison in which the sequential-scan count moves the flags too
CompareMetrics_scans(metrics1, metrics2) ==
    LET time1 == Get(metrics1, "execution_time_ms", 0)
        time2 == Get(metrics2, "execution_time_ms", 0)
        cost1 == Get(metrics1, "total_cost", 0)
        cost2 == Get(metrics2, "total_cost", 0)
        seq1 == Get(metrics1, "seq_scan_count", 0)
        seq2 == Get(metrics2, "seq_scan_count", 0)
        improved == \/ Comparable(time1, time2) /\ time2 < time1
                    \/ Comparable(cost1, cost2) /\ cost2 < cost1
                    \/ seq2 < seq1
        regressed == \/ Comparable(time1, time2) /\ time2 > time1
                     \/ Comparable(cost1, cost2) /\ cost2 > cost1
                     \/ seq2 > seq1
    IN  [changes |->
            (IF Comparable(time1, time2)
             THEN <<Change("execution_time_ms", time1, time2)>> ELSE <<>>)
            \o (IF Comparable(cost1, cost2)
                THEN <<Change("total_cost", cost1, cost2)>> ELSE <<>>)
            \o (IF seq1 # seq2
                THEN <<Change("seq_scan_count", seq1, seq2)>> ELSE <<>>),
         summary |-> Summary(improved, regressed),
         improved |-> improved, regressed |-> regressed]

\* _compare_metrics
CompareMetrics(metrics1, metrics2) ==
    LET time1 == Get(metrics1, "execution_time_ms", 0)
        time2 == Get(metrics2, "execution_time_ms", 0)
        time_diff == time2 - time1
        improved_1 == Comparable(time1, time2) /\ time_diff < 0
        regressed_1 == Comparable(time1, time2) /\ ~(time_diff < 0)
                          /\ time_diff > 0
        cost1 == Get(metrics1, "total_cost", 0)
        cost2 == Get(metrics2, "total_cost", 0)
        cost_diff == cost2 - cost1
        improved_2 == \/ improved_1
                      \/ Comparable(cost1, cost2) /\ cost_diff < 0
                            /\ ~improved_1
        regressed_2 == \/ regressed_1
                       \/ Comparable(cost1, cost2)
                             /\ ~(cost_diff < 0 /\ ~improved_1)
                             /\ cost_diff > 0
        seq1 == Get(metrics1, "seq_scan_count", 0)
        seq2 == Get(metrics2, "seq_scan_count", 0)
    IN  [changes |->
            (IF Comparable(time1, time2)
             THEN <<Change("execution_time_ms", time1, time2)>> ELSE <<>>)
            \o (IF Comparable(cost1, cost2)
                THEN <<Change("total_cost", cost1, cost2)>> ELSE <<>>)
            \o (IF seq1 # seq2
                THEN <<[metric |-> "seq_scan_count", before |-> seq1,
                        after |-> seq2,
                        status |-> IF seq2 < seq1 THEN "improved"
                                   ELSE "regressed"]>>
                ELSE <<>>),
         summary |-> Summary(improved_2, regressed_2),
         improved |-> improved_2, regressed |-> regressed_2]

\* the metrics _compare_metrics reads
ComparedMetrics == {"execution_time_ms", "total_cost", "seq_scan_count"}

\* values of a metric: zero, a smaller and a larger one
MetricValues == 0..2

\* metrics dictionaries: each key absent or set
MetricsOver(keys) == UNION {[present -> MetricValues] : present \in SUBSET keys}

CompareIdle ==
    [pc |-> "idle", metrics1 |-> NoArguments, metrics2 |-> NoArguments,
     comparison |-> NoComparison]

\* _compare_metrics(metrics1, metrics2) on two plans' metrics
CompareMetricsCall ==
    /\ cmp.pc = "idle"
    /\ \E metrics1, metrics2 \in MetricsOver(ComparedMetrics) :
         cmp' = [pc |-> "done", metrics1 |-> metrics1, metrics2 |-> metrics2,
                 comparison |-> CompareMetrics(metrics1, metrics2)]
    /\ UNCHANGED notCmp

CompareMetricsReturn ==
    /\ cmp.pc = "done"
    /\ cmp' = CompareIdle
    /\ UNCHANGED notCmp

NextCompare ==
    \/ CompareMetricsCall
    \/ CompareMetricsReturn

\* plan_index_2 after "if plan_index_2 < 0: plan_index_2 += len(plans)"
ResolveIndex_asGiven(plan_index_2, length) == plan_index_2

ResolveIndex(plan_index_2, length) ==
    IF plan_index_2 < 0 THEN length + plan_index_2 ELSE plan_index_2

\* "index < 0 or index >= len(plans)"
InvalidIndex(index, length) == index < 0 \/ index >= length

\* action = compare
ComparePlans(c) ==
    /\ hist[c].pc = "idle"
    /\ \E hash_arg \in env.hashes, query \in env.queries,
          plan_index_1 \in env.indexes_1, plan_index_2 \in env.indexes_2 :
         LET r == [ReadRequest("compare", hash_arg, query) EXCEPT
                     !.plan_index_1 = plan_index_1,
                     !.plan_index_2 = plan_index_2]
             query_hash == r.query_hash
         IN  IF query_hash = <<>>
             THEN HSet(c, Answer(r, "text", "Error: Either query_hash or query is required"))
             ELSE IF query_hash \notin DOMAIN plan_history
             THEN HSet(c, Answer(r, "text", "No stored plans found"))
             ELSE
             LET plans == plan_history[query_hash]
                 index_2 == ResolveIndex(plan_index_2, Len(plans))
             IN  IF Len(plans) < 2
                 THEN HSet(c, Answer(r, "text", "At least 2 stored plans are required"))
                 ELSE IF InvalidIndex(plan_index_1, Len(plans))
                 THEN HSet(c, Answer(r, "text", "Invalid plan_index_1"))
                 ELSE IF InvalidIndex(index_2, Len(plans))
                 THEN HSet(c, Answer(r, "text", "Invalid plan_index_2"))
                 ELSE HSet(c, [Answer(r, "json", NoMessage) EXCEPT
                                 !.index_1 = plan_index_1,
                                 !.index_2 = index_2,
                                 !.reads = {plan_index_1, index_2},
                                 !.comparison =
                                     CompareMetrics(
                                         plans[plan_index_1 + 1].metrics,
                                         plans[index_2 + 1].metrics)])
    /\ UNCHANGED <<plan_history, stores, issued, notHist>>

RECURSIVE TotalPlans(_)
\* sum(len(plans) for plans in _plan_history.values())
TotalPlans(history) ==
    IF DOMAIN history = {} THEN 0
    ELSE LET h == CHOOSE k \in DOMAIN history : TRUE
         IN  Len(history[h])
                + TotalPlans([k \in DOMAIN history \ {h} |-> history[k]])

\* action = list
ListPlans(c) ==
    /\ hist[c].pc = "idle"
    /\ LET r == ReadRequest("list", <<>>, <<>>)
       IN  IF plan_history = NoHistory
           THEN HSet(c, Answer(r, "text", "No stored plans in history"))
           ELSE HSet(c, [Answer(r, "json", NoMessage) EXCEPT
                           !.count = Cardinality(DOMAIN plan_history)])
    /\ UNCHANGED <<plan_history, stores, issued, notHist>>

\* the history without one key
Without_nothing(history, query_hash) == history

Without(history, query_hash) ==
    [h \in DOMAIN history \ {query_hash} |-> history[h]]

\* action = clear, for one query or for all
ClearPlans(c) ==
    /\ hist[c].pc = "idle"
    /\ \E hash_arg \in env.hashes, query \in env.queries :
         LET query_hash == ResolveKey(hash_arg, query)
             r == [HistIdle EXCEPT !.action = "clear", !.pc = "done",
                                   !.hash_arg = hash_arg, !.query = query,
                                   !.query_hash = query_hash,
                                   !.before = plan_history]
         IN  IF query_hash # <<>>
             THEN IF query_hash \in DOMAIN plan_history
                  THEN /\ plan_history' = Without(plan_history, query_hash)
                       /\ issued' = SelectSeq(issued,
                                        LAMBDA p : p[1] # query_hash)
                       /\ HSet(c, [Answer(r, "json", "Cleared plans for query hash")
                                   EXCEPT
                                     !.count = Len(plan_history[query_hash]),
                                     !.after = Without(plan_history, query_hash)])
                  ELSE /\ plan_history' = plan_history
                       /\ issued' = issued
                       /\ HSet(c, [Answer(r, "text", "No stored plans found")
                                   EXCEPT !.after = plan_history])
             ELSE /\ plan_history' = NoHistory
                  /\ issued' = <<>>
                  /\ HSet(c, [Answer(r, "json", "Cleared all plan history")
                              EXCEPT !.count = TotalPlans(plan_history),
                                     !.after = NoHistory])
    /\ UNCHANGED <<stores, notHist>>

HistReturn(c) ==
    /\ hist[c].pc = "done"
    /\ HSet(c, HistIdle)
    /\ UNCHANGED <<plan_history, stores, issued, notHist>>

\* one client issuing every action in turn
NextReads ==
    \E c \in env.clients :
        \/ StoreInvoke(c)
        \/ StoreExplain(c)
        \/ StoreExplainFails(c)
        \/ GetPlans(c)
        \/ ComparePlans(c)
        \/ ListPlans(c)
        \/ ClearPlans(c)
        \/ HistReturn(c)

\* store, get, list and clear through the instances of env.handlers
NextInstances ==
    \E c \in env.clients :
        \/ StoreInvoke(c)
        \/ StoreExplain(c)
        \/ StoreExplainFails(c)
        \/ GetPlans(c)
        \/ ListPlans(c)
        \/ ClearPlans(c)
        \/ HistReturn(c)

NextHistory ==
    \E c \in env.clients :
        \/ StoreInvoke(c)
        \/ StoreExplain(c)
        \/ StoreExplainFails(c)
        \/ ClearPlans(c)
        \/ HistReturn(c)

\* One client, every key argument; the plans' metrics are held to one
\* value, since which plans a request reads does not depend on them.
ReadsEnv ==
    [clients |-> {"c1"}, costs |-> {100},
     urls |-> {"postgresql://localhost/test"},
     hashes |-> HashArguments,
     metrics |-> {"total_cost" :> 100},
     handlers |-> [c \in Clients |-> "handler"],
     queries |-> QueryArguments, stored |-> Queries,
     indexes_1 |-> PlanIndexes1, indexes_2 |-> PlanIndexes2]

\* Concurrent requests of every action on one handler, over two queries;
\* compare is asked with its default indexes (the first plan against the
\* latest).
ConcurrentEnv ==
    [clients |-> Clients, costs |-> {100},
     urls |-> {"postgresql://localhost/test"},
     hashes |-> {<<>>},
     metrics |-> {"total_cost" :> 100},
     handlers |-> [c \in Clients |-> "handler"],
     queries |-> {<<>>, <<"a", " ", "b">>},
     stored |-> {<<"a", "b">>, <<"a", " ", "b">>},
     indexes_1 |-> {0}, indexes_2 |-> {0 - 1}]

\* Concurrent store and clear requests on one handler.
HistoryEnv ==
    [clients |-> Clients, costs |-> {100},
     urls |-> {"postgresql://localhost/test"},
     hashes |-> {<<>>},
     metrics |-> {"total_cost" :> 100},
     handlers |-> [c \in Clients |-> "handler"],
     queries |-> QueryArguments, stored |-> Queries]

\* Two QueryPlanHistoryToolHandler instances, each serving one client.
InstancesEnv ==
    [clients |-> Clients, costs |-> {100},
     urls |-> {"postgresql://localhost/test"},
     hashes |-> {<<>>},
     metrics |-> {"total_cost" :> 100},
     handlers |-> [c \in Clients |-> c],
     queries |-> QueryArguments, stored |-> Queries]

\* every handler idle, on an empty session, in environment e
Init(e) ==
    /\ InitHypo(e)
    /\ adv = AdvIdle
    /\ perf = PerfIdle
    /\ db \in {NewPool(url) : url \in env.urls}
    /\ val = ValIdle
    /\ reg = RegIdle
    /\ plan_history = NoHistory
    /\ hist = [c \in Clients |-> HistIdle]
    /\ stores = 0
    /\ issued = <<>>
    /\ srv = MainIdle
    /\ cmp = CompareIdle

\* the shared session under concurrent requests
SpecHypo == Init(SessionEnv) /\ [][NextHypo]_vars

\* concurrent explain_with_indexes requests on the shared session
SpecExplain == Init(SessionEnv) /\ [][NextExplain]_vars

\* the cost arithmetic of explain_with_indexes
SpecCost == Init(CostEnv) /\ [][NextHypo]_vars

\* the recommendation pipeline
SpecAdvisor ==
    Init(SessionEnv) /\ [][NextAdvisor]_vars

\* the life cycle of the connection pool
SpecPool == Init(PoolEnv) /\ [][NextPool]_vars

\* calls with and without their required arguments
SpecValidate == Init(SessionEnv) /\ [][NextValidate]_vars

\* registration and listing of the tools
SpecRegistry == Init(SessionEnv) /\ [][NextRegistry]_vars

\* the plan history under concurrent requests
SpecHistory == Init(HistoryEnv) /\ [][NextHistory]_vars

\* the plan history read and cleared by one client at a time
SpecReads == Init(ReadsEnv) /\ [][NextReads]_vars

\* two handler instances on the module's history
SpecInstances == Init(InstancesEnv) /\ [][NextInstances]_vars

\* call_tool on a registry that grows
SpecCalls == Init(SessionEnv) /\ [][NextCalls]_vars

\* one run of main
SpecMain == Init(SessionEnv) /\ [][NextMain]_vars

\* every action of the plan history under concurrent requests
SpecConcurrent == Init(ConcurrentEnv) /\ [][NextReads]_vars

\* _compare_metrics over every pair of metrics
SpecCompare == Init(SessionEnv) /\ [][NextCompare]_vars

\* the statistics readers
SpecPerf ==
    Init(SessionEnv) /\ [][NextPerf]_vars

(***************************************************************************)
(* Properties of the hypothetical-index session (SpecHypo)                 *)
(***************************************************************************)
Returned(c, tool) == calls[c].pc = "done" /\ calls[c].tool = tool

OwnedBy(c) == {x \in hypo : x.owner = calls[c].id}

\* C1: when an explain_with_indexes call returns, on every exit path, no
\* hypothetical index created by that call is left in the session.
C1_ExplainLeavesNoIndex ==
    \A c \in Clients :
        Returned(c, "explain_with_indexes") => OwnedBy(c) = {}

\* C1 witness: a call that created an index and then left the try through an
\* exception (a later creation or the second EXPLAIN raised) has returned.
C1_Witness ==
    \E c \in Clients :
        /\ Returned(c, "explain_with_indexes")
        /\ calls[c].created_indexes # <<>>
        /\ calls[c].raised
        /\ calls[c].result = "error"
        /\ OwnedBy(c) = {}

\* C2: when an estimate_size call returns, on every exit path, the temporary
\* index it created is no longer in the session.
C2_EstimateSizeLeavesNoIndex ==
    \A c \in Clients :
        (Returned(c, "manage_hypothetical_indexes")
            /\ calls[c].action = "estimate_size") => OwnedBy(c) = {}

\* C9: the improvement reported by explain_with_indexes is never negative,
\* and it is 0 when the cost with the indexes is not below the original.
C9_ImprovementNeverNegative ==
    \A c \in Clients :
        (Returned(c, "explain_with_indexes") /\ calls[c].result = "json"
            /\ calls[c].has_improvement)
        => /\ calls[c].improvement >= 0
           /\ (calls[c].cost_with_indexes >= calls[c].original_cost
                  => calls[c].improvement = 0)

\* C10: the original plan of explain_with_indexes is computed while the
\* session holds no hypothetical index.
C10_BaselineWithoutHypotheticalIndexes ==
    \A c \in Clients :
        (calls[c].tool = "explain_with_indexes"
            /\ calls[c].original_cost # NoCost) => calls[c].baseline = {}

\* the entries a history holds under a hash
ListOf(history, query_hash) ==
    IF query_hash \in DOMAIN history THEN history[query_hash] ELSE <<>>

StoreReturned(c) == hist[c].pc = "done" /\ hist[c].action = "store"

\* C20: a successful store appends exactly one entry, the request's, to the
\* list keyed by the whitespace-normalized query, returns as plan_index the
\* previous length of that list, and changes no existing entry and no other
\* list; a store whose EXPLAIN raises or returns no rows changes nothing.
C20_StoreAppendsOneEntry ==
    \A c \in Clients :
        StoreReturned(c) =>
            LET r == hist[c]
                key == Join(Split(r.query))
                previous == ListOf(r.before, key)
            IN  IF r.result = "json"
                THEN /\ r.query_hash = key
                     /\ DOMAIN r.after = DOMAIN r.before \cup {key}
                     /\ Len(r.after[key]) = Len(previous) + 1
                     /\ SubSeq(r.after[key], 1, Len(previous)) = previous
                     /\ r.after[key][Len(previous) + 1].query = r.query
                     /\ r.plan_index = Len(previous)
                     /\ \A other \in DOMAIN r.before \ {key} :
                            r.after[other] = r.before[other]
                ELSE /\ r.after = r.before
                     /\ r.plan_index = NoPlanIndex

\* a second plan of a query stored under another spelling of it, while
\* another query has a list of its own
C20_Witness ==
    \E c \in Clients :
        /\ StoreReturned(c)
        /\ hist[c].result = "json"
        /\ hist[c].plan_index = 1
        /\ hist[c].before[hist[c].query_hash][1].query # hist[c].query
        /\ DOMAIN hist[c].before # {hist[c].query_hash}

\* the key a request names: its query_hash if it sent one, else the
\* whitespace-normalized query, else none
NamedKey(r) ==
    IF r.hash_arg # <<>> THEN r.hash_arg ELSE Join(Split(r.query))

CompareReturned(c) == hist[c].pc = "done" /\ hist[c].action = "compare"

\* C21: compare answers a comparison exactly when the named query has at
\* least two stored plans and both indexes, a negative plan_index_2 counted
\* from the end, lie within the list; otherwise it answers the explanatory
\* text of the first failing test; it reads no position outside the list
\* and leaves the history unchanged.
C21_CompareWithinTheList ==
    \A c \in Clients :
        CompareReturned(c) =>
            LET r == hist[c]
                key == NamedKey(r)
                n == Len(ListOf(r.before, key))
                second == IF r.plan_index_2 < 0 THEN n + r.plan_index_2
                          ELSE r.plan_index_2
                within == /\ n >= 2
                          /\ r.plan_index_1 \in 0..(n - 1)
                          /\ second \in 0..(n - 1)
            IN  /\ r.after = r.before
                /\ r.reads \subseteq 0..(n - 1)
                /\ (r.result = "json") <=> within
                /\ r.result = "json" =>
                      /\ r.index_1 = r.plan_index_1
                      /\ r.index_2 = second
                      /\ r.reads = {r.plan_index_1, second}
                /\ r.result # "json" =>
                      /\ r.result = "text"
                      /\ r.reads = {}
                      /\ r.message =
                            IF key = <<>>
                            THEN "Error: Either query_hash or query is required"
                            ELSE IF n = 0 THEN "No stored plans found"
                            ELSE IF n < 2
                            THEN "At least 2 stored plans are required"
                            ELSE IF r.plan_index_1 \notin 0..(n - 1)
                            THEN "Invalid plan_index_1"
                            ELSE "Invalid plan_index_2"

\* the first of three plans compared with the latest, named as -1
C21_Witness ==
    \E c \in Clients :
        /\ CompareReturned(c)
        /\ hist[c].result = "json"
        /\ hist[c].plan_index_2 = 0 - 1
        /\ hist[c].index_1 = 0
        /\ hist[c].index_2 = 2

\* the stored plans of a history, each as <<key, position>>
PlansOf(history) ==
    UNION {{<<h, k>> : k \in 1..Len(history[h])} : h \in DOMAIN history}

ClearReturned(c) == hist[c].pc = "done" /\ hist[c].action = "clear"

\* C22: clear naming a query or a hash removes that key's plans, reports
\* their number and leaves every other list as it was; clear naming
\* neither empties the history and reports the number of plans removed;
\* clear naming a key without plans changes nothing; list on an empty
\* history answers 'No stored plans'.
C22_ClearRemovesWhatItNames ==
    \A c \in Clients :
        /\ ClearReturned(c) =>
              LET r == hist[c]
                  key == NamedKey(r)
              IN  IF key = <<>>
                  THEN /\ r.after = NoHistory
                       /\ r.result = "json"
                       /\ r.count = Cardinality(PlansOf(r.before))
                  ELSE IF key \in DOMAIN r.before
                  THEN /\ DOMAIN r.after = DOMAIN r.before \ {key}
                       /\ \A other \in DOMAIN r.after :
                              r.after[other] = r.before[other]
                       /\ r.result = "json"
                       /\ r.count = Len(r.before[key])
                  ELSE /\ r.after = r.before
                       /\ r.result = "text"
        /\ (hist[c].pc = "done" /\ hist[c].action = "list") =>
              ((hist[c].message = "No stored plans in history")
                  <=> hist[c].before = NoHistory)

\* two plans of one query cleared by a spelling of it, another query's
\* plan left in place
C22_Witness ==
    \E c \in Clients :
        /\ ClearReturned(c)
        /\ hist[c].hash_arg = <<>>
        /\ hist[c].count = 2
        /\ hist[c].after # NoHistory

\* the plans an activation removed
Removed(r) ==
    {p \in PlansOf(r.before) :
        p[1] \notin DOMAIN r.after \/ p[2] > Len(r.after[p[1]])}

\* C23: a handler instance sees and clears only the plans stored through
\* it: what get answers for a query are plans that instance stored, and
\* clear removes no plan another instance stored.
C23_InstancesAreIsolated ==
    \A c \in Clients :
        /\ (hist[c].pc = "done" /\ hist[c].action = "get"
                /\ hist[c].result = "json") =>
              \A k \in DOMAIN hist[c].before[hist[c].query_hash] :
                  hist[c].before[hist[c].query_hash][k].handler
                      = env.handlers[c]
        /\ ClearReturned(c) =>
              \A p \in Removed(hist[c]) :
                  hist[c].before[p[1]][p[2]].handler = env.handlers[c]

\* C24: explain_with_indexes, having simulated the indexes, reports an
\* improvement of 0 when the original cost is 0, and for a positive
\* original cost (original - new) / original * 100 to two decimals (held
\* in hundredths of a percent).
C24_ImprovementAtZeroCost ==
    \A c \in Clients :
        (Returned(c, "explain_with_indexes") /\ calls[c].result = "json"
            /\ calls[c].cost_with_indexes # NoCost)
        => LET original == calls[c].original_cost
               new == calls[c].cost_with_indexes
               exact == (original - new) * 10000
               off == calls[c].improvement * original - exact
           IN  /\ calls[c].has_improvement
               /\ original = 0 => calls[c].improvement = 0
               /\ original > 0 => (2 * off <= original /\ 0 - 2 * off <= original)

C27_CleanupRemovesOnlyOwn ==
    [][\A c \in Clients :
          (calls[c].tool = "explain_with_indexes"
              /\ calls[c].pc = "finally" /\ calls'[c].pc = "done")
          => (Oids(hypo) \ Oids(hypo'))
                 \subseteq Range(calls[c].created_indexes)]_vars

\* C28: under interleaved store, get, compare, list and clear requests
\* every key of the history maps to a non-empty list, a step either removes
\* a key's list or keeps its entries as they were and in their order, and
\* two stores of one query whose plans were not cleared in between are
\* answered distinct plan_index values.
C28_HistoryStaysWellFormed ==
    /\ [](/\ \A h \in DOMAIN plan_history : plan_history[h] # <<>>
          /\ \A i, j \in DOMAIN issued : i # j => issued[i] # issued[j])
    /\ [][\A h \in DOMAIN plan_history :
             h \in DOMAIN plan_history'
                 => IsPrefix(plan_history[h], plan_history'[h])]_vars

\* two stores of one query in flight together, answered 0 and 1
C28_Witness ==
    \E c, d \in Clients :
        /\ StoreReturned(c) /\ StoreReturned(d)
        /\ hist[c].result = "json" /\ hist[d].result = "json"
        /\ hist[c].query_hash = hist[d].query_hash
        /\ hist[c].plan_index = 0
        /\ hist[d].plan_index = 1

\* the names of the calls an activation made, in order
OpsOf(r) == [k \in DOMAIN r.service_ops |-> r.service_ops[k].op]

\* C29: explain_with_indexes asked for hypothetical indexes on a backend
\* whose availability check is negative answers the original cost with an
\* error field, having made one EXPLAIN and the check and nothing else: no
\* creation, no second EXPLAIN, no reset; asked for none, it makes no call
\* to the hypothetical-index service.
C29_UnavailableStopsEarly ==
    \A c \in Clients :
        (Returned(c, "explain_with_indexes")
            /\ calls[c].original_cost # NoCost) =>
            /\ (calls[c].requested /\ ~available) =>
                  /\ calls[c].result = "json"
                  /\ calls[c].error_field
                  /\ OpsOf(calls[c])
                        = <<"execute_query", "check_hypopg_available">>
            /\ ~calls[c].requested =>
                  /\ OpsOf(calls[c]) = <<"execute_query">>
                  /\ ~calls[c].error_field

\* indexes were asked for and the backend has no HypoPG
C29_Witness ==
    \E c \in Clients :
        /\ Returned(c, "explain_with_indexes")
        /\ calls[c].requested
        /\ ~available
        /\ calls[c].error_field

\* the metrics that decide the summary
SummaryMetrics == {"execution_time_ms", "total_cost"}

\* present and non-zero in both plans
InBoth(metric) ==
    /\ metric \in DOMAIN cmp.metrics1 /\ cmp.metrics1[metric] # 0
    /\ metric \in DOMAIN cmp.metrics2 /\ cmp.metrics2[metric] # 0

Decreased == {m \in SummaryMetrics : InBoth(m) /\ cmp.metrics2[m] < cmp.metrics1[m]}

Increased == {m \in SummaryMetrics : InBoth(m) /\ cmp.metrics2[m] > cmp.metrics1[m]}

StatusesOf(metric) ==
    {cmp.comparison.changes[k].status :
        k \in {j \in DOMAIN cmp.comparison.changes :
                  cmp.comparison.changes[j].metric = metric}}

\* C30: execution time and total cost, when present and non-zero in both
\* plans, are marked improved if the value fell, regressed if it rose and
\* unchanged otherwise; the summary is improved when some such metric fell
\* and none rose, regressed when some rose and none fell, mixed when both
\* happened and 'no significant changes' otherwise, whatever the
\* sequential-scan counts are.
C30_SummaryFromTimeAndCost ==
    cmp.pc = "done" =>
        /\ \A m \in SummaryMetrics :
              InBoth(m) =>
                  StatusesOf(m) =
                      {IF m \in Decreased THEN "improved"
                       ELSE IF m \in Increased THEN "regressed"
                       ELSE "unchanged"}
        /\ cmp.comparison.summary =
              IF Decreased # {} /\ Increased = {}
              THEN "Query performance improved"
              ELSE IF Increased # {} /\ Decreased = {}
              THEN "Query performance regressed - investigate changes"
              ELSE IF Increased # {} /\ Decreased # {}
              THEN
                  "Mixed results - some metrics improved, others regressed"
              ELSE "No significant changes detected"

\* fewer sequential scans at equal time and cost: no significant change
C30_Witness ==
    /\ cmp.pc = "done"
    /\ InBoth("execution_time_ms") /\ InBoth("total_cost")
    /\ Decreased = {} /\ Increased = {}
    /\ StatusesOf("seq_scan_count") = {"improved"}
    /\ cmp.comparison.summary = "No significant changes detected"

\* C11: the second EXPLAIN of an explain_with_indexes call runs while the
\* session holds exactly the hypothetical indexes that call created: no
\* index of another call is present and none of its own has been removed.
C11_SimulationsDoNotInterleave ==
    \A c \in Clients :
        (calls[c].tool = "explain_with_indexes"
            /\ calls[c].cost_with_indexes # NoCost)
        => calls[c].simulated = Range(calls[c].created_indexes)

(***************************************************************************)
(* Properties of the argument validation (SpecValidate)                    *)
(***************************************************************************)
\* the required names that are absent or null in the call
MissingNames ==
    {arg \in Range(val.required) :
        arg \notin DOMAIN val.arguments \/ val.arguments[arg] = "None"}

\* position of a name in the declaration
DeclaredAt(arg) == CHOOSE k \in 1..Len(val.required) : val.required[k] = arg

C19_OneDefinitionPerHandler ==
    reg.listed # "none" =>
        /\ reg.listed = "returned"
        /\ Len(reg.tools) = Len(reg.listed_handlers)
        /\ \A k \in 1..Len(reg.tools) :
              /\ ~reg.tools[k].raised
              /\ reg.tools[k].name = reg.listed_handlers[k]

(***************************************************************************)
(* Properties of the connection pool (SpecPool)                            *)
(***************************************************************************)
\* C15: while no pool is open (never connected, connect failed, closed)
\* execute_query fails with 'not connected' and executes nothing, and close
\* does nothing and leaves the pool absent.
C15_NoPoolNoExecution ==
    db.last.phase_before \in NoPoolPhases =>
        /\ db.last.op = "execute_query" =>
              /\ db.last.outcome = "not_connected"
              /\ db.executed = db.last.executed_before
              /\ db.phase = db.last.phase_before
        /\ db.last.op = "close" =>
              /\ db.last.outcome = "ok"
              /\ db.phase = db.last.phase_before
              /\ db.executed = db.last.executed_before

\* C15 witness: a pool that was open, ran a statement and was closed; the
\* next execute_query fails with 'not connected'.
C15_Witness ==
    /\ db.last.op = "execute_query"
    /\ db.last.phase_before = "closed"
    /\ db.last.outcome = "not_connected"
    /\ db.executed = 1

(***************************************************************************)
(* Properties of get_slow_queries and get_table_stats (SpecPerf)           *)
(***************************************************************************)
IssuedKinds == {perf.issued[k].kind : k \in 1..Len(perf.issued)}

\* C13: get_slow_queries probes for the extension first; without a row or
\* with available = false it returns the 'not installed' message and never
\* issues the statistics query; with the extension present and no
\* qualifying row it returns the 'No slow queries found' message.
C13_ExtensionCheckedFirst ==
    perf.tool = "get_slow_queries" =>
        /\ "pg_stat_statements" \in IssuedKinds =>
              /\ perf.issued[1] = CheckStatement
              /\ perf.check_result = "true"
        /\ (perf.pc = "done" /\ perf.check_result \in {"no_row", "false"}) =>
              /\ perf.result = "not_installed"
              /\ "pg_stat_statements" \notin IssuedKinds
        /\ (perf.pc = "done" /\ perf.check_result = "true"
                /\ perf.result # "error" /\ perf.rows = 0) =>
              perf.result = "no_slow_queries"

\* C13 witness: the probe answered available = false and the call returned
\* the 'not installed' message after that one statement.
C13_Witness ==
    /\ perf.tool = "get_slow_queries"
    /\ perf.pc = "done"
    /\ perf.check_result = "false"
    /\ perf.result = "not_installed"
    /\ perf.issued = <<CheckStatement>>

\* text the handlers write into a statement: the allow-lists' entries, the
\* table filter and the configured statements filter
FixedTexts ==
    Range(SlowOrderMap) \cup Range(TableOrderMap)
        \cup {"", "AND c.relname ILIKE %s", StatementsFilter}

\* C14: the ORDER BY text of every statement is an entry of the tool's
\* allow-list, the default entry for an order_by outside it, and limit,
\* min_calls and min_mean_time_ms travel as bound parameters only.
C14_OrderByFromAllowList ==
    \A k \in 1..Len(perf.issued) :
        LET st == perf.issued[k]
            args == perf.arguments
        IN  /\ \A j \in 1..Len(st.interpolated) :
                  st.interpolated[j] \in FixedTexts
            /\ st.kind = "pg_stat_statements" =>
                  /\ st.interpolated[2] \in Range(SlowOrderMap)
                  /\ Get(args, "order_by", "mean_time")
                          \notin DOMAIN SlowOrderMap
                      => st.interpolated[2] = "mean_exec_time"
                  /\ st.params = <<Get(args, "min_calls", 1),
                                   Get(args, "min_mean_time_ms", 0),
                                   Get(args, "limit", 10)>>
            /\ st.kind = "table_stats" =>
                  /\ st.interpolated[2] \in Range(TableOrderMap)
                  /\ Get(args, "order_by", "size")
                          \notin DOMAIN TableOrderMap
                      => st.interpolated[2] = "total_size DESC"

\* C14 witness: an order_by that is no column name, with a caller's limit:
\* the statistics query went out ordered by the default column.
C14_Witness ==
    /\ perf.tool = "get_slow_queries"
    /\ perf.pc = "done"
    /\ Get(perf.arguments, "order_by", "mean_time") = "calls; DROP TABLE t"
    /\ Get(perf.arguments, "limit", 10) = 5
    /\ Len(perf.issued) = 2
    /\ perf.issued[2].interpolated[2] = "mean_exec_time"
    /\ perf.issued[2].params[3] = 5

\* the service operation that belongs to an action: its name and whether
\* it takes the caller's index_id
OperationOf ==
    [check |-> <<"check_status", FALSE>>,
     create |-> <<"create_index", FALSE>>,
     list |-> <<"list_indexes", FALSE>>,
     drop |-> <<"drop_index", TRUE>>,
     reset |-> <<"reset", FALSE>>,
     hide |-> <<"hide_index", TRUE>>,
     unhide |-> <<"unhide_index", TRUE>>,
     list_hidden |-> <<"list_hidden_indexes", FALSE>>,
     explain_with_index |-> <<"explain_with_hypothetical_index", FALSE>>]

\* the names under which the handler reaches these operations
HandlerName ==
    [check_status |-> "check_hypopg_available",
     create_index |-> "create_hypothetical_index",
     list_indexes |-> "list_hypothetical_indexes",
     drop_index |-> "drop_hypothetical_index",
     reset |-> "reset_hypothetical_indexes",
     hide_index |-> "hide_index",
     unhide_index |-> "unhide_index",
     list_hidden_indexes |-> "list_hidden_indexes",
     explain_with_hypothetical_index |-> "explain_with_hypothetical_index"]

\* C18: a manage_hypothetical_indexes call that passed the validation of
\* its arguments makes
\* exactly one service call, the one of its action, with the caller's
\* index_id where the operation takes one; an action outside the nine makes
\* no service call and returns 'Unknown action'.
C18_ActionDispatch ==
    \A c \in Clients :
        (Returned(c, "manage_hypothetical_indexes")
            /\ ~(calls[c].result = "error" /\ calls[c].service_ops = <<>>)
            /\ (calls[c].action \in {"hide", "unhide"}
                    => calls[c].index_id # 0))
        => IF calls[c].action \in DOMAIN OperationOf
           THEN LET o == OperationOf[calls[c].action]
                IN  calls[c].service_ops =
                        <<[op |-> HandlerName[o[1]],
                           arg |-> IF o[2] THEN calls[c].index_id ELSE 0]>>
           ELSE /\ calls[c].service_ops = <<>>
                /\ calls[c].result = "text"

(***************************************************************************)
(* Properties of get_index_recommendations (SpecAdvisor)                   *)
(***************************************************************************)
AdvReturned == adv.pc = "done" /\ adv.result = "json"

\* positions of the collected list that pass the table filter
OnTarget ==
    {k \in 1..Len(adv.all_recommendations) :
        \/ adv.target_tables = <<>>
        \/ \E t \in 1..Len(adv.target_tables) :
              Lower(adv.all_recommendations[k].table)
                  = Lower(adv.target_tables[t])}

\* positions that also meet the caller's threshold
Qualifying ==
    {k \in OnTarget : Imp(adv.all_recommendations[k]) >= adv.min_improvement}

\* C3: every recommendation returned meets the caller's
\* min_improvement_percent.
C3_OutputMeetsThreshold ==
    AdvReturned =>
        \A k \in 1..Len(adv.recommendations) :
            Imp(adv.recommendations[k]) >= adv.min_improvement

\* C3 witness: with the default threshold, a result that returns something
\* while a candidate on the target tables was below the threshold.
C3_Witness ==
    /\ AdvReturned
    /\ adv.min_improvement = DefaultMinImprovement
    /\ adv.recommendations # <<>>
    /\ OnTarget \ Qualifying # {}

\* C4: the output is in non-increasing order of improvement, has at most
\* max_recommendations entries, and consists of qualifying candidates none of
\* which is worse than a qualifying candidate left out.
C4_SortedCappedBest ==
    AdvReturned =>
        LET out == adv.recommendations
            all == adv.all_recommendations
        IN  /\ \A j \in 1..Len(out) - 1 : Imp(out[j]) >= Imp(out[j + 1])
            /\ Len(out) <= adv.max_recommendations
            /\ \E f \in [1..Len(out) -> Qualifying] :
                  /\ \A a, b \in 1..Len(out) : a # b => f[a] # f[b]
                  /\ \A j \in 1..Len(out) : out[j] = all[f[j]]
                  /\ \A k \in Qualifying \ {f[j] : j \in 1..Len(out)} :
                        \A j \in 1..Len(out) : Imp(all[k]) <= Imp(out[j])

\* C4 witness: the cap cut a qualifying candidate off and the sort moved a
\* later, better candidate in front of an earlier one.
C4_Witness ==
    /\ AdvReturned
    /\ Len(adv.recommendations) = adv.max_recommendations
    /\ Cardinality(Qualifying) > adv.max_recommendations
    /\ \E a, b \in Qualifying :
          /\ a < b
          /\ Imp(adv.all_recommendations[a]) < Imp(adv.all_recommendations[b])
          /\ adv.recommendations[1] = adv.all_recommendations[b]

\* C12: a call whose analysis did not fail returns a normal result; when its
\* final list is empty the result has total_recommendations 0 and carries
\* the explanatory message, and when it is non-empty it carries no message.
C12_EmptyListIsNoError ==
    (adv.pc = "done" /\ ~adv.failed) =>
        /\ adv.result = "json"
        /\ adv.total_recommendations = Len(adv.recommendations)
        /\ adv.message <=> (adv.recommendations = <<>>)

\* C12 witness: threshold 80 and the best candidate on the target tables at
\* 50: an empty list returned with the message.
C12_Witness ==
    /\ AdvReturned
    /\ adv.min_improvement = 80
    /\ OnTarget # {}
    /\ \A k \in OnTarget : Imp(adv.all_recommendations[k]) <= 50
    /\ \E k \in OnTarget : Imp(adv.all_recommendations[k]) = 50
    /\ adv.recommendations = <<>>
    /\ adv.total_recommendations = 0
    /\ adv.message

C5_NoRedundantPair ==
    AdvReturned =>
        \A a, b \in 1..Len(adv.recommendations) :
            a < b => ~Redundant(adv.recommendations[a], adv.recommendations[b])

\* C6: when the analysis of one of several supplied queries fails, the call
\* still returns a normal result (the failing query is skipped).
C6_FailureIsSkipped ==
    (adv.pc = "done" /\ adv.analysis_source = "provided_queries"
        /\ Len(adv.workload_queries) >= 2 /\ adv.failed)
    => adv.result = "json"

\* C7: every recommendation returned has an improvement within [0, 100].
C7_ImprovementInRange ==
    AdvReturned =>
        \A k \in 1..Len(adv.recommendations) :
            /\ Imp(adv.recommendations[k]) >= 0
            /\ Imp(adv.recommendations[k]) <= 100

\* C8: recommendations of equal improvement appear by smaller estimated
\* size, then table name, then column list.
C8_TieBreakOrder ==
    AdvReturned =>
        \A a, b \in 1..Len(adv.recommendations) :
            (a < b /\ Imp(adv.recommendations[a]) = Imp(adv.recommendations[b]))
            => TieLE(adv.recommendations[a], adv.recommendations[b])

====
